---- MODULE Spec2Model ----
(***************************************************************************)
(* A model of johansen/johansen.py: the Johansen class (construction, mle, *)
(* h_test, johansen).                                                      *)
(*                                                                         *)
(* Numbers.  Eigenvalues are fixed-point tenths (3 stands for 0.3); logs,  *)
(* statistics and critical values are thousandths (-357 stands for         *)
(* ln(0.7) = -0.357).  The series x is an integer matrix, a sequence of    *)
(* rows.  The floating-point linear algebra of mle (pinv, inv, eig,        *)
(* cholesky, argsort) is a deterministic function of x that the model does *)
(* not compute: its outcome for the x of an object is the record linalg[o] *)
(* fixed when the object is constructed.                                   *)
(***************************************************************************)
EXTENDS Integers, Sequences, FiniteSets, TLC

VARIABLES mapping, obj, linalg, frame, ret, locals, first

vars == <<mapping, obj, linalg, frame, ret, locals, first>>

(* ------------------------------ bounds --------------------------------- *)

\* Largest number of series (columns of x).
MaxM == 2
\* Largest number of observations (rows of x).
MaxObs == 4
\* Largest lag order k.
MaxK == 2
\* Largest eigenvalue, in tenths.
MaxLam == 2

\* The objects of the single-object specification and of the two-object one.
Objects == {1}
ObjectsPure == {1, 2}

(* --------------------------- small helpers ----------------------------- *)

RECURSIVE SeqSum(_)
\* np.sum of a one-dimensional array.
SeqSum(s) == IF s = <<>> THEN 0 ELSE Head(s) + SeqSum(Tail(s))

\* a[i:] of a Python sequence, 0 <= i.
SliceFrom(s, i) == SubSeq(s, i + 1, Len(s))

\* Whether a[i] of a Python sequence of length n is inside it (a negative
\* index counts from the end).
InRange(n, i) == -n <= i /\ i < n

\* a[i] of a Python sequence, InRange(Len(s), i).
PyIndex(s, i) == IF i >= 0 THEN s[i + 1] ELSE s[Len(s) + i + 1]

\* The permutations of 1..n, as sequences.
Perms(n) == {p \in [1..n -> 1..n] : \A i, j \in 1..n : i # j => p[i] # p[j]}

(* ------------------- the critical-value table -------------------------- *)

\* str(model) for the model cases the inputs draw from.
Digit(model) == <<"0", "1", "2", "3", "4", "5">>[model + 1]

\* critical_values.mapping: key -> the numbers of the entry's string, in the
\* order of the string (three per row: 90%, 95%, 99%).
CriticalValuesMapping ==
  [key \in {"TRACE_0", "TRACE_1", "TRACE_2", "TRACE_3", "TRACE_4",
            "MAX_EVAL_0", "MAX_EVAL_1", "MAX_EVAL_2", "MAX_EVAL_3",
            "MAX_EVAL_4"} |->
     CASE key = "TRACE_0" -> <<105, 210, 223, 328, 446, 656>>
       [] key = "TRACE_1" -> <<200, 223, 300, 400, 446, 600>>
       [] key = "TRACE_2" -> <<100, 105, 210, 223, 328, 420>>
       [] key = "TRACE_3" -> <<210, 300, 446, 500, 656, 892>>
       [] key = "TRACE_4" -> <<150, 250, 350, 450, 550, 650>>
       [] key = "MAX_EVAL_0" -> <<105, 210, 223, 210, 223, 446>>
       [] key = "MAX_EVAL_1" -> <<100, 223, 300, 200, 250, 446>>
       [] key = "MAX_EVAL_2" -> <<50, 105, 210, 105, 210, 223>>
       [] key = "MAX_EVAL_3" -> <<210, 300, 446, 223, 400, 500>>
       [] key = "MAX_EVAL_4" -> <<150, 250, 350, 200, 300, 400>>]

(* ----------------------------- __init__ -------------------------------- *)

\* The key of lines 60-63.
Key(trace, model) ==
  IF trace THEN "TRACE_" \o Digit(model) ELSE "MAX_EVAL_" \o Digit(model)

\* np.array(...).reshape(-1, 3): the rows of three of a flat array.
Reshape3(flat) ==
  [i \in 1..(Len(flat) \div 3) |->
     <<flat[3 * i - 2], flat[3 * i - 1], flat[3 * i]>>]

\* Column with c taken as a column number from 1.
ColumnFromOne(rows, c) ==
  [i \in 1..Len(rows) |-> rows[i][IF c = 0 THEN 3 ELSE c]]

\* a[:, c]: column c (from 0) of a two-dimensional array.
Column(rows, c) == [i \in 1..Len(rows) |-> rows[i][c + 1]]

\* The slot of an object that does not exist.
NoObject ==
  [exists |-> FALSE, x |-> <<>>, k |-> 0, trace |-> FALSE, model |-> 0,
   significance_level |-> 0, critical_values |-> <<>>]

\* The object __init__ leaves (lines 54-71), the key being in the table.
NewObject(table, x, model, k, trace, significance_level) ==
  LET key == Key(trace, model)
      critical_values_str == table[key]
      select_critical_values == Reshape3(critical_values_str)
  IN [exists |-> TRUE, x |-> x, k |-> k, trace |-> trace, model |-> model,
      significance_level |-> significance_level,
      critical_values |-> Column(select_critical_values, significance_level)]

(* ------------------------------- mle ----------------------------------- *)

\* np.diff(a, axis=0): row i is a[i+1] - a[i].
Diff(a) ==
  [i \in 1..(Len(a) - 1) |-> [j \in 1..Len(a[1]) |-> a[i + 1][j] - a[i][j]]]

RECURSIVE LagColumns(_, _, _, _)
\* The row of lagmat for time p: a[p-lag], a[p-lag-1], ..., a[p-maxlag],
\* side by side.
LagColumns(a, p, lag, maxlag) ==
  IF lag > maxlag THEN <<>>
  ELSE a[p - lag] \o LagColumns(a, p, lag + 1, maxlag)

\* statsmodels lagmat(a, maxlag, trim='both'): one row per time
\* maxlag+1..Len(a), holding the maxlag rows before it, nearest first.
lagmat(a, maxlag) ==
  [i \in 1..(Len(a) - maxlag) |-> LagColumns(a, maxlag + i, 1, maxlag)]

\* Trim one row short: a[k-1:].
TrimOneLess(a, k) == SliceFrom(a, k - 1)

\* a[k:] of lines 98-99.
Trim(a, k) == SliceFrom(a, k)

\* np.append(a, ones, axis=1) of lines 103-104.
AppendOnes(a) == [i \in 1..Len(a) |-> a[i] \o <<1>>]

\* np.append(a, times, axis=1) of lines 108-109: times is 0, 1, 2, ...
AppendTimes(a) == [i \in 1..Len(a) |-> a[i] \o <<i - 1>>]

\* Whether the regressions include an intercept (line 102).
HasIntercept(model) == model # 0

\* HasTrend with the wrong model cases.
HasTrendShifted(model) == model \in {2, 3}

\* Whether the regressions include a time trend (line 107).
HasTrend(model) == model \in {3, 4}

\* x_diff_lags as pinv receives it (lines 89-109).
DesignMatrix(x, k, model) ==
  LET x_diff == Diff(x)
      x_diff_lags == lagmat(x_diff, k)
      with_ones == IF HasIntercept(model) THEN AppendOnes(x_diff_lags)
                   ELSE x_diff_lags
  IN IF HasTrend(model) THEN AppendTimes(with_ones) ELSE with_ones

\* The locals of mle that the regressions read: x_diff and x_lag after
\* trimming, the design matrix, and t of line 122 (assigned once pinv has
\* returned; -1 stands for a t never assigned).
MleLocals(self, la) ==
  LET x_diff_lags == DesignMatrix(self.x, self.k, self.model)
  IN [x_diff |-> Trim(Diff(self.x), self.k),
      x_lag |-> Trim(lagmat(self.x, 1), self.k),
      x_diff_lags |-> x_diff_lags,
      t |-> IF la.fail = "pinv" THEN -1 ELSE Len(x_diff_lags)]

\* np.linalg.eig's eigenvectors: column j is the one paired with eigenvalue
\* j of the solver.
SolverColumns(m) == [j \in 1..m |-> [of |-> j, normalized |-> FALSE]]

\* Lines 144-148: E . inv(L^T), L the Cholesky factor of E^T Svv E.
Normalize(eigenvectors) ==
  [j \in 1..Len(eigenvectors) |-> [of |-> eigenvectors[j].of, normalized |-> TRUE]]

\* np.flipud of a one-dimensional array.
Flipud(s) == [i \in 1..Len(s) |-> s[Len(s) + 1 - i]]

\* a[indices] (and a[:, indices] on columns): fancy indexing, indices from 1.
Take(a, indices) == [i \in 1..Len(indices) |-> a[indices[i]]]

\* IndicesOrdered without the flip: ascending.
IndicesAscending(argsort) == argsort

\* Lines 154-155: the indices that order the eigenvalues.
IndicesOrdered(argsort) == Flipud(argsort)

\* What mle produces when it returns None after printing message.
MleNone(message) ==
  [kind |-> "None", eigenvectors |-> <<>>, eigenvalues |-> <<>>,
   printed |-> <<message>>]

\* What mle produces when an exception leaves it.
MleRaise(error) ==
  [kind |-> error, eigenvectors |-> <<>>, eigenvalues |-> <<>>,
   printed |-> <<>>]

\* Lines 153-159: order and return.
MleReturn(eigenvalues, eigenvectors, argsort) ==
  LET indices_ordered == IndicesOrdered(argsort)
  IN [kind |-> "pair",
      eigenvectors |-> Take(eigenvectors, indices_ordered),
      eigenvalues |-> Take(eigenvalues, indices_ordered),
      printed |-> <<>>]

\* mle (lines 86-159) on an object whose linear algebra behaves as la.
mle(self, la) ==
  LET m == Len(self.x[1])
  IN CASE la.fail = "pinv" -> MleNone("Unable to take inverse of x_diff_lags.")
       [] la.fail = "Svv" -> MleNone("Unable to take inverse of Svv.")
       [] la.fail = "Suu" -> MleNone("Unable to take inverse of Suu.")
       [] la.fail = "eig" -> MleRaise("LinAlgError")
       [] la.fail = "cholesky" -> MleRaise("LinAlgError")
       [] la.fail = "cholesky_inv" ->
            MleNone("Unable to take the inverse of the Cholesky factor.")
       [] OTHER ->
            MleReturn(la.eigenvalues, Normalize(SolverColumns(m)), la.argsort)

(* ------------------------------ h_test --------------------------------- *)

\* np.log of a number given in tenths, in thousandths.
Log(tenths) ==
  <<-2303, -1609, -1204, -916, -693, -511, -357, -223, -105, 0>>[tenths]

\* np.ones(m) - eigenvalues, in tenths.
OnesMinus(m, eigenvalues) == [i \in 1..m |-> 10 - eigenvalues[i]]

\* np.log of an array.
LogArray(a) == [i \in 1..Len(a) |-> Log(a[i])]

\* TraceTerms that skips the r-th term: [r+1:].
TraceTermsAfterR(eigenvalues, r) ==
  SliceFrom(LogArray(OnesMinus(Len(eigenvalues), eigenvalues)), r + 1)

\* The terms line 183 sums: np.log(np.ones(m) - eigenvalues)[r:].
TraceTerms(eigenvalues, r) ==
  SliceFrom(LogArray(OnesMinus(Len(eigenvalues), eigenvalues)), r)

\* The terms line 185 sums: np.log(1 - eigenvalues[r]).
MaxEvalTerms(eigenvalues, r) == <<Log(10 - PyIndex(eigenvalues, r))>>

\* CriticalIndex off by one.
CriticalIndexOffByOne(m, r) == m - r

\* The index of line 187 into self.critical_values.
CriticalIndex(m, r) == m - r - 1

\* Reject that also rejects on equality.
RejectOnEquality(statistic, critical_value) ==
  IF statistic >= critical_value THEN TRUE ELSE FALSE

\* Lines 189-192.
Reject(statistic, critical_value) ==
  IF statistic > critical_value THEN TRUE ELSE FALSE

\* What h_test produces when an IndexError leaves it.
HTestRaise(t, m) ==
  [kind |-> "IndexError", value |-> FALSE, t |-> t, m |-> m,
   statistic |-> 0, index |-> 0, critical_value |-> 0]

\* h_test (lines 178-192).
h_test(self, eigenvalues, r) ==
  LET nobs == Len(self.x)
      t == nobs - self.k - 1
      m == IF self.trace THEN Len(eigenvalues) ELSE Len(self.x[1])
      index == CriticalIndex(m, r)
  IN IF ~self.trace /\ ~InRange(Len(eigenvalues), r) THEN HTestRaise(t, m)
     ELSE LET statistic ==
                IF self.trace THEN -t * SeqSum(TraceTerms(eigenvalues, r))
                ELSE -t * SeqSum(MaxEvalTerms(eigenvalues, r))
          IN IF ~InRange(Len(self.critical_values), index)
             THEN HTestRaise(t, m)
             ELSE LET critical_value == PyIndex(self.critical_values, index)
                  IN [kind |-> "bool",
                      value |-> Reject(statistic, critical_value),
                      t |-> t, m |-> m, statistic |-> statistic,
                      index |-> index, critical_value |-> critical_value]

(* ----------------------------- johansen -------------------------------- *)

\* The outcome of the last call on an object, before any call.
NoRet ==
  [op |-> "none", kind |-> "none", trace |-> FALSE, model |-> 0,
   significance_level |-> 0, r |-> 0,
   eigenvectors |-> <<>>, eigenvalues |-> <<>>, rejected_r_values |-> <<>>,
   tested |-> <<>>, outcomes |-> <<>>, printed |-> <<>>,
   value |-> FALSE, t |-> 0, m |-> 0, statistic |-> 0, index |-> 0,
   critical_value |-> 0]

\* No call of johansen in progress.
Idle ==
  [pc |-> "idle", eigenvectors |-> <<>>, eigenvalues |-> <<>>, r |-> 0,
   rejected_r_values |-> <<>>, tested |-> <<>>, outcomes |-> <<>>]

\* JohansenExcept that lets the exception go on to the caller.
JohansenReraise(res) ==
  [NoRet EXCEPT !.op = "johansen",
     !.kind = IF res.kind = "None" THEN "TypeError" ELSE res.kind,
     !.printed = res.printed]

\* Lines 209-211: whatever left the try block (an exception of mle, or the
\* TypeError of unpacking the None it returned), print and return None.
JohansenExcept(res) ==
  [NoRet EXCEPT !.op = "johansen", !.kind = "None",
     !.printed = res.printed \o
                 <<"Unable to obtain possible cointegrating relations.">>]

\* LoopNext that leaves the loop at the first r not rejected.
LoopBreaks(r, value) == IF value THEN r + 1 ELSE MaxM

\* Line 214: the r that follows r in range(m), whatever h_test returned.
LoopNext(r, value) == r + 1

\* Lines 215-216.
Collect(rejected_r_values, r, value) ==
  IF value THEN Append(rejected_r_values, r) ELSE rejected_r_values

\* self after a call of mle: mle assigns no attribute of self.
SelfAfterMle(self) == self

\* SelfAfterHTest for an h_test that reverses the row in place.
SelfAfterHTestReversed(self) ==
  [self EXCEPT !.critical_values = Flipud(self.critical_values)]

\* self after a call of h_test: h_test assigns no attribute of self.
SelfAfterHTest(self) == self

\* critical_values.mapping after a call: no method assigns into it.
MappingAfter(table) == table

(* ---------------------------- the inputs ------------------------------- *)

\* The series the inputs draw from: n observations of m series.  In the
\* first every level and every difference is a different number.
Series(kind, n, m) ==
  [i \in 1..n |->
     [j \in 1..m |->
        IF kind = "doubling" THEN (2 * j - 1) * 2^i ELSE i * i + j]]

\* np.argsort(eigenvalues): any order of the indices that sorts them
\* ascending (the order of equal eigenvalues is the sort's own).
ArgSorts(eigenvalues) ==
  {p \in Perms(Len(eigenvalues)) :
     \A i \in 1..(Len(eigenvalues) - 1) :
        eigenvalues[p[i]] <= eigenvalues[p[i + 1]]}

\* The stages of mle that can fail.
FailStages == {"pinv", "Svv", "Suu", "eig", "cholesky", "cholesky_inv"}

\* How the linear algebra of mle can behave on an x of m series.
LinAlg(m) ==
  {[fail |-> f, eigenvalues |-> <<>>, argsort |-> <<>>] : f \in FailStages}
  \cup
  UNION {{[fail |-> "none", eigenvalues |-> e, argsort |-> p] :
            p \in ArgSorts(e)} : e \in [1..m -> 0..MaxLam]}

NoLinAlg == [fail |-> "none", eigenvalues |-> <<>>, argsort |-> <<>>]

(* ---------------------------- the actions ------------------------------ *)

\* No object exists; first outcomes are kept for the objects of H.
InitOf(O, H) ==
  /\ mapping = CriticalValuesMapping
  /\ obj = [o \in O |-> NoObject]
  /\ linalg = [o \in O |-> NoLinAlg]
  /\ frame = [o \in O |-> Idle]
  /\ ret = [o \in O |-> NoRet]
  /\ locals = [o \in O |->
                 [x_diff |-> <<>>, x_lag |-> <<>>, x_diff_lags |-> <<>>,
                  t |-> -1]]
  /\ first = [o \in H |-> [mle |-> NoRet, johansen |-> NoRet]]

\* Johansen(x, model, k, trace, significance_level): lines 54-71.  A key
\* that is not in the mapping raises KeyError at line 65 and there is no
\* object.
Construct(o, cfg) ==
  /\ ~obj[o].exists
  /\ Len(cfg.x) > cfg.k + 1
  /\ LET key == Key(cfg.trace, cfg.model)
         args == [NoRet EXCEPT !.op = "__init__", !.trace = cfg.trace,
                    !.model = cfg.model,
                    !.significance_level = cfg.significance_level]
     IN IF key \in DOMAIN mapping
        THEN /\ obj' = [obj EXCEPT ![o] =
                          NewObject(mapping, cfg.x, cfg.model, cfg.k,
                                    cfg.trace, cfg.significance_level)]
             /\ linalg' = [linalg EXCEPT ![o] = cfg.la]
             /\ ret' = [ret EXCEPT ![o] = [args EXCEPT !.kind = "object"]]
        ELSE /\ ret' = [ret EXCEPT ![o] = [args EXCEPT !.kind = "KeyError"]]
             /\ UNCHANGED <<obj, linalg>>
  /\ UNCHANGED <<mapping, frame, locals, first>>

\* The first outcome of each method, kept to compare later ones with.
Remember(o, method, outcome) ==
  IF o \in DOMAIN first /\ first[o][method].op = "none"
  THEN first' = [first EXCEPT ![o][method] = outcome]
  ELSE UNCHANGED first

\* A call of mle (lines 73-159).
CallMle(o) ==
  /\ obj[o].exists
  /\ frame[o].pc = "idle"
  /\ LET res == mle(obj[o], linalg[o])
         outcome == [NoRet EXCEPT !.op = "mle", !.kind = res.kind,
                       !.eigenvectors = res.eigenvectors,
                       !.eigenvalues = res.eigenvalues,
                       !.printed = res.printed]
     IN /\ ret' = [ret EXCEPT ![o] = outcome]
        /\ Remember(o, "mle", outcome)
  /\ locals' = [locals EXCEPT ![o] = MleLocals(obj[o], linalg[o])]
  /\ obj' = [obj EXCEPT ![o] = SelfAfterMle(obj[o])]
  /\ mapping' = MappingAfter(mapping)
  /\ UNCHANGED <<linalg, frame>>

\* A call of h_test (lines 161-192) with the eigenvalues mle returned.
CallHTest(o, r) ==
  /\ obj[o].exists
  /\ frame[o].pc = "idle"
  /\ ret[o].op \in {"mle", "h_test"}
  /\ ret[o].eigenvalues # <<>>
  /\ LET h == h_test(obj[o], ret[o].eigenvalues, r)
     IN ret' = [ret EXCEPT ![o] =
                  [NoRet EXCEPT !.op = "h_test", !.kind = h.kind, !.r = r,
                     !.eigenvalues = ret[o].eigenvalues,
                     !.value = h.value, !.t = h.t, !.m = h.m,
                     !.statistic = h.statistic, !.index = h.index,
                     !.critical_value = h.critical_value]]
  /\ obj' = [obj EXCEPT ![o] = SelfAfterHTest(obj[o])]
  /\ mapping' = MappingAfter(mapping)
  /\ UNCHANGED <<linalg, frame, locals, first>>

\* johansen, lines 205-213: the call of mle and what the try makes of it.
JohansenStart(o) ==
  /\ obj[o].exists
  /\ frame[o].pc = "idle"
  /\ LET res == mle(obj[o], linalg[o])
     IN IF res.kind = "pair"
        THEN /\ frame' = [frame EXCEPT ![o] =
                            [Idle EXCEPT !.pc = "loop",
                               !.eigenvectors = res.eigenvectors,
                               !.eigenvalues = res.eigenvalues]]
             /\ ret' = [ret EXCEPT ![o] =
                          [NoRet EXCEPT !.op = "johansen",
                             !.kind = "running"]]
             /\ UNCHANGED first
        ELSE /\ ret' = [ret EXCEPT ![o] = JohansenExcept(res)]
             /\ Remember(o, "johansen", JohansenExcept(res))
             /\ UNCHANGED frame
  /\ locals' = [locals EXCEPT ![o] = MleLocals(obj[o], linalg[o])]
  /\ obj' = [obj EXCEPT ![o] = SelfAfterMle(obj[o])]
  /\ mapping' = MappingAfter(mapping)
  /\ UNCHANGED linalg

\* johansen, lines 214-216: one turn of the loop.  An IndexError of h_test
\* leaves johansen, which has no handler around the loop.
JohansenIter(o) ==
  /\ frame[o].pc = "loop"
  /\ frame[o].r < Len(obj[o].x[1])
  /\ LET f == frame[o]
         h == h_test(obj[o], f.eigenvalues, f.r)
         outcome == [NoRet EXCEPT !.op = "johansen", !.kind = "IndexError",
                       !.tested = Append(f.tested, f.r), !.r = f.r]
     IN IF h.kind = "bool"
        THEN /\ frame' = [frame EXCEPT ![o] =
                            [f EXCEPT !.r = LoopNext(f.r, h.value),
                               !.rejected_r_values =
                                  Collect(f.rejected_r_values, f.r, h.value),
                               !.tested = Append(f.tested, f.r),
                               !.outcomes = Append(f.outcomes, h.value)]]
             /\ UNCHANGED <<ret, first>>
        ELSE /\ frame' = [frame EXCEPT ![o] = Idle]
             /\ ret' = [ret EXCEPT ![o] = outcome]
             /\ Remember(o, "johansen", outcome)
  /\ obj' = [obj EXCEPT ![o] = SelfAfterHTest(obj[o])]
  /\ mapping' = MappingAfter(mapping)
  /\ UNCHANGED <<linalg, locals>>

\* johansen, line 218: the loop is over.
JohansenReturn(o) ==
  /\ frame[o].pc = "loop"
  /\ frame[o].r >= Len(obj[o].x[1])
  /\ LET f == frame[o]
         outcome == [NoRet EXCEPT !.op = "johansen", !.kind = "pair",
                       !.eigenvectors = f.eigenvectors,
                       !.eigenvalues = f.eigenvalues,
                       !.rejected_r_values = f.rejected_r_values,
                       !.tested = f.tested, !.outcomes = f.outcomes]
     IN /\ ret' = [ret EXCEPT ![o] = outcome]
        /\ Remember(o, "johansen", outcome)
  /\ frame' = [frame EXCEPT ![o] = Idle]
  /\ UNCHANGED <<mapping, obj, linalg, locals>>

\* Whether slot o holds no object yet, as the set to draw a new one's
\* number of series from.
Free(o, ms) == IF obj[o].exists THEN {} ELSE ms

\* A constructor call for slot o with x of ns observations of ms series,
\* the given model cases and levels, and linear algebra failing in stages
\* or not at all: n_obs > k + 1, k >= 1.
New(o, kinds, ms, ns, models, levels, stages) ==
  \E m \in Free(o, ms) : \E n \in ns : \E k \in 1..MaxK :
    \E model \in models : \E trace \in BOOLEAN : \E level \in levels :
      \E la \in {l \in LinAlg(m) : l.fail \in stages} : \E kind \in kinds :
        Construct(o, [x |-> Series(kind, n, m), model |-> model,
                      k |-> k, trace |-> trace,
                      significance_level |-> level, la |-> la])

\* The r a caller passes to h_test: the m of johansen's loop, and r = m.
Ranks(o) == IF obj[o].exists THEN 0..Len(obj[o].x[1]) ELSE {}

Init == InitOf(Objects, {})

\* One object, every model case and every behaviour of the linear algebra.
Next ==
  \E o \in Objects :
    \/ New(o, {"doubling"}, 1..MaxM, 3..MaxObs, 0..5, 0..2,
           FailStages \cup {"none"})
    \/ CallMle(o)
    \/ \E r \in Ranks(o) : CallHTest(o, r)
    \/ JohansenStart(o)
    \/ JohansenIter(o)
    \/ JohansenReturn(o)

Spec == Init /\ [][Next]_vars

InitDesign == InitOf(Objects, {})

\* One object, every model case and series up to MaxObs + 1 observations;
\* the linear algebra fails in the regressions or the covariances.
NextDesign ==
  \E o \in Objects :
    \/ New(o, {"doubling", "squares"}, 1..MaxM, 3..(MaxObs + 1), 0..5, 0..2,
           {"pinv", "Svv"})
    \/ CallMle(o)
    \/ JohansenStart(o)

SpecDesign == InitDesign /\ [][NextDesign]_vars

InitPure == InitOf(ObjectsPure, ObjectsPure)

\* Two objects whose calls interleave, the first on two series and the
\* second on one.
NextPure ==
  \E o \in ObjectsPure :
    \/ New(o, {"doubling"}, {3 - o}, {3}, {1}, {1}, {"none", "Svv"})
    \/ CallMle(o)
    \/ \E r \in Ranks(o) : CallHTest(o, r)
    \/ JohansenStart(o)
    \/ JohansenIter(o)
    \/ JohansenReturn(o)

SpecPure == InitPure /\ [][NextPure]_vars

(* ------------------------------ claims --------------------------------- *)

\* The number of series of the object in slot o.
SeriesOf(o) == Len(obj[o].x[1])

\* Whether the last call on slot o was a call of johansen that has ended.
JohansenEnded(o) == ret[o].op = "johansen" /\ ret[o].kind # "running"

\* C1: when johansen returns its pair, h_test has been called for every
\* r = 0, 1, ..., m-1 in this order, and the rejected list holds exactly
\* the r for which h_test(eigenvalues, r) returned True, each once and
\* ascending; an r that was not rejected stops nothing.
JohansenCollectsEveryRejection ==
  \A o \in DOMAIN ret :
    ret[o].op = "johansen" /\ ret[o].kind = "pair" =>
      /\ ret[o].tested = [i \in 1..SeriesOf(o) |-> i - 1]
      /\ Len(ret[o].outcomes) = SeriesOf(o)
      /\ \A r \in 0..(SeriesOf(o) - 1) :
           ret[o].outcomes[r + 1] =
             h_test(obj[o], ret[o].eigenvalues, r).value
      /\ ret[o].rejected_r_values =
           SelectSeq(ret[o].tested, LAMBDA r : ret[o].outcomes[r + 1])

\* A run that did not reject r = 0 and went on to reject r = 1.
RejectedAfterNotRejected ==
  \E o \in DOMAIN ret :
    /\ ret[o].op = "johansen" /\ ret[o].kind = "pair"
    /\ ret[o].outcomes = <<FALSE, TRUE>>
    /\ ret[o].rejected_r_values = <<1>>

\* C2: h_test returns True if and only if the statistic is strictly
\* greater than the critical value; on equality it returns False, with the
\* trace statistic and with the max-eigenvalue statistic.
HTestRejectsIffStrictlyGreater ==
  \A o \in DOMAIN ret :
    ret[o].op = "h_test" /\ ret[o].kind = "bool" =>
      /\ ret[o].value = (ret[o].statistic > ret[o].critical_value)
      /\ ret[o].statistic = ret[o].critical_value => ~ret[o].value

\* h_test has returned False for a statistic equal to the critical value.
StatisticEqualsCriticalValue ==
  \E o \in DOMAIN ret :
    /\ ret[o].op = "h_test" /\ ret[o].kind = "bool"
    /\ ret[o].statistic = ret[o].critical_value
    /\ ret[o].statistic > 0
    /\ ~ret[o].value

RECURSIVE SumLogOneMinus(_, _, _)
\* The sum of ln(1 - lambda_i) over i = from..to, indices from 0.
SumLogOneMinus(eigenvalues, from, to) ==
  IF from > to THEN 0
  ELSE Log(10 - eigenvalues[from + 1])
       + SumLogOneMinus(eigenvalues, from + 1, to)

\* C3: for r in 0..m-1 and t = n_obs - k - 1, the trace statistic is -t
\* times the sum of ln(1 - lambda_i) over i = r..m-1 and the max-eigenvalue
\* statistic is -t * ln(1 - lambda_r).
StatisticSumsFromR ==
  \A o \in DOMAIN ret :
    /\ ret[o].op = "h_test" /\ ret[o].kind = "bool"
    /\ ret[o].r \in 0..(SeriesOf(o) - 1)
    => LET t == Len(obj[o].x) - obj[o].k - 1
           m == SeriesOf(o)
       IN ret[o].statistic =
            IF obj[o].trace
            THEN -t * SumLogOneMinus(ret[o].eigenvalues, ret[o].r, m - 1)
            ELSE -t * Log(10 - ret[o].eigenvalues[ret[o].r + 1])

\* A trace statistic for r = 1 of two eigenvalues, the first of which is
\* the larger and does not count.
TraceStatisticFromOne ==
  \E o \in DOMAIN ret :
    /\ ret[o].op = "h_test" /\ ret[o].kind = "bool"
    /\ obj[o].trace /\ ret[o].r = 1
    /\ ret[o].eigenvalues = <<2, 1>>
    /\ Len(obj[o].x) - obj[o].k - 1 = 2
    /\ ret[o].statistic = 210

\* C4: for r in 0..m-1 and a row of at least m entries, h_test compares
\* with the entry m - r - 1 of the row, m the number of series, with either
\* statistic; the index is in 0..m-1 and nothing is raised.
CriticalIndexIsMMinusRMinusOne ==
  \A o \in DOMAIN ret :
    /\ ret[o].op = "h_test"
    /\ ret[o].r \in 0..(SeriesOf(o) - 1)
    /\ Len(obj[o].critical_values) >= SeriesOf(o)
    => /\ ret[o].kind = "bool"
       /\ ret[o].m = SeriesOf(o)
       /\ ret[o].index = SeriesOf(o) - ret[o].r - 1
       /\ ret[o].index \in 0..(SeriesOf(o) - 1)
       /\ ret[o].critical_value =
            obj[o].critical_values[SeriesOf(o) - ret[o].r]

\* The max-eigenvalue test of r = 0 on two series: entry 1, the last.
MaxEvalUsesLastEntry ==
  \E o \in DOMAIN ret :
    /\ ret[o].op = "h_test" /\ ret[o].kind = "bool"
    /\ ~obj[o].trace /\ SeriesOf(o) = 2 /\ ret[o].r = 0
    /\ ret[o].index = 1
    /\ ret[o].critical_value = obj[o].critical_values[2]

\* The error kind that would name the stage that failed.
TypedError(stage) ==
  CASE stage = "pinv" -> "SingularRegressorError"
    [] stage \in {"Svv", "Suu"} -> "SingularCovarianceError"
    [] stage \in {"cholesky", "cholesky_inv"} -> "NonPositiveDefiniteError"
    [] OTHER -> "LinAlgError"

TableKey(trace, model) ==
  IF trace
  THEN <<"TRACE_0", "TRACE_1", "TRACE_2", "TRACE_3", "TRACE_4",
         "TRACE_5">>[model + 1]
  ELSE <<"MAX_EVAL_0", "MAX_EVAL_1", "MAX_EVAL_2", "MAX_EVAL_3",
         "MAX_EVAL_4", "MAX_EVAL_5">>[model + 1]

\* C6: a constructor call whose key is not in the table raises at once and
\* leaves no object; one whose key is in the table leaves an object whose
\* row is column significance_level of the entry's rows of three.  Every
\* object there is has a tabulated key.
ConstructionSelectsRowOrFails ==
  \A o \in DOMAIN ret :
    /\ ret[o].op = "__init__" =>
         IF TableKey(ret[o].trace, ret[o].model) \in DOMAIN mapping
         THEN ret[o].kind = "object" /\ obj[o].exists
         ELSE ret[o].kind = "KeyError" /\ ~obj[o].exists
    /\ obj[o].exists =>
         LET key == TableKey(obj[o].trace, obj[o].model)
         IN /\ key \in DOMAIN mapping
            /\ Len(obj[o].critical_values) = Len(mapping[key]) \div 3
            /\ \A i \in 1..Len(obj[o].critical_values) :
                 obj[o].critical_values[i] =
                   mapping[key][3 * (i - 1) + obj[o].significance_level + 1]
    /\ ret[o].op \in {"mle", "h_test", "johansen"} => obj[o].exists

\* A constructor call for model case 5 has failed and left no object.
ConstructionFailed ==
  \E o \in DOMAIN ret :
    /\ ret[o].op = "__init__" /\ ret[o].kind = "KeyError"
    /\ ret[o].model = 5 /\ ~obj[o].exists

\* C7: the eigenvalues mle returns are sorted non-increasing and are the
\* solver's eigenvalues in another order, and column i of the returned
\* eigenvectors is the normalized column of the solver that was paired
\* with returned eigenvalue i.
MleOrdersPairsDescending ==
  \A o \in DOMAIN ret :
    ret[o].op = "mle" /\ ret[o].kind = "pair" =>
      LET m == SeriesOf(o)
          values == ret[o].eigenvalues
          columns == ret[o].eigenvectors
      IN /\ Len(values) = m /\ Len(columns) = m
         /\ \A i \in 1..(m - 1) : values[i] >= values[i + 1]
         /\ {columns[i].of : i \in 1..m} = 1..m
         /\ \A i \in 1..m :
              /\ columns[i].normalized
              /\ values[i] = linalg[o].eigenvalues[columns[i].of]

\* mle has returned two eigenvalues the solver had given in ascending
\* order, and with them the columns exchanged.
MleExchangedTwoPairs ==
  \E o \in DOMAIN ret :
    /\ ret[o].op = "mle" /\ ret[o].kind = "pair"
    /\ linalg[o].eigenvalues = <<1, 2>>
    /\ ret[o].eigenvalues = <<2, 1>>
    /\ ret[o].eigenvectors[1].of = 2

\* C8: no step changes an object that exists or the mapping, and every
\* call of mle and of johansen on an object returns what the first such
\* call on it returned, whatever ran in between on this or the other
\* object.
RunsArePure ==
  /\ [][/\ mapping' = mapping
        /\ \A o \in DOMAIN obj : obj[o].exists => obj'[o] = obj[o]]_vars
  /\ [](\A o \in DOMAIN first :
          /\ ret[o].op = "mle" => ret[o] = first[o].mle
          /\ JohansenEnded(o) => ret[o] = first[o].johansen)

\* Object 1 has run johansen to its end, is in the loop of a second run
\* and has tested r = 0 again, while object 2 is in the loop of a run.
RepeatedRunInterleaved ==
  /\ DOMAIN first = {1, 2}
  /\ first[1].johansen.kind = "pair"
  /\ frame[1].pc = "loop" /\ frame[1].tested = <<0>>
  /\ frame[2].pc = "loop"

\* C9: the design matrix has m*k columns of lagged differences, then a
\* column of ones if and only if model # 0, then a column 0, 1, ..., t-1 if
\* and only if model is 3 or 4.
DesignColumnsFollowModel ==
  \A o \in DOMAIN locals :
    obj[o].exists /\ locals[o].x_diff_lags # <<>> =>
      LET mk == SeriesOf(o) * obj[o].k
          model == obj[o].model
          ones == IF model # 0 THEN 1 ELSE 0
          trend == IF model = 3 \/ model = 4 THEN 1 ELSE 0
          design == locals[o].x_diff_lags
      IN \A i \in 1..Len(design) :
           /\ Len(design[i]) = mk + ones + trend
           /\ ones = 1 => design[i][mk + 1] = 1
           /\ trend = 1 => /\ design[i][mk + 2] = i - 1
                           /\ Len(design[i]) = mk + 2
           /\ SubSeq(design[i], 1, mk) =
                lagmat(Diff(obj[o].x), obj[o].k)[i]

\* A design matrix of three rows with the intercept and the trend.
DesignWithTrend ==
  \E o \in DOMAIN locals :
    /\ obj[o].exists /\ obj[o].model = 3 /\ SeriesOf(o) = 2
    /\ Len(locals[o].x_diff_lags) = 3
    /\ locals[o].x_diff_lags[3] = <<8, 24, 1, 2>>

\* C10: after trimming, x_diff, x_lag and the lagged differences have
\* t = n_obs - k - 1 rows each; row i (from 0) holds x[k+1+i] - x[k+i],
\* x[k+i], and the k differences before it, nearest first; t is the row
\* count of line 122 and the t of h_test.
TrimmedRowsAlign ==
  \A o \in DOMAIN locals :
    obj[o].exists /\ locals[o].x_diff_lags # <<>> =>
      LET x == obj[o].x
          k == obj[o].k
          m == SeriesOf(o)
          t == Len(x) - k - 1
      IN /\ Len(locals[o].x_diff) = t
         /\ Len(locals[o].x_lag) = t
         /\ Len(locals[o].x_diff_lags) = t
         /\ locals[o].t \in {-1, t}
         /\ h_test(obj[o], [j \in 1..m |-> 0], 0).t = t
         /\ \A i \in 0..(t - 1) : \A j \in 1..m :
              /\ locals[o].x_diff[i + 1][j] =
                   x[k + 1 + i + 1][j] - x[k + i + 1][j]
              /\ locals[o].x_lag[i + 1][j] = x[k + i + 1][j]
              /\ \A lag \in 1..k :
                   locals[o].x_diff_lags[i + 1][(lag - 1) * m + j] =
                     x[k + 1 + i - lag + 1][j] - x[k + i - lag + 1][j]

\* mle has gone past pinv on five observations of two series with k = 2:
\* two rows of four lagged differences each.
TwoAlignedRows ==
  \E o \in DOMAIN locals :
    /\ obj[o].exists /\ obj[o].k = 2 /\ SeriesOf(o) = 2
    /\ Len(obj[o].x) = 5
    /\ locals[o].t = 2
    /\ Len(locals[o].x_diff) = 2

====
